---- MODULE Spec2Model ----
(***************************************************************************)
(* Smart-Notes-App: the elaboration pipeline of POST /notes/:id/elaborate  *)
(* (src/src/routes/notes.js) with its content-hash + TTL cache             *)
(* (src/src/utils/hash.js), the note update route, the image upload route  *)
(* POST /notes/image, the store the handlers share (notes table,           *)
(* references table), and the service functions the handlers call          *)
(* (searchWeb, buildQueries, rerankResults, elaborateNote).                *)
(*                                                                         *)
(* The clock of the store counts hours; isCacheValid works on milliseconds.*)
(* Strings are sequences of characters or words.                           *)
(***************************************************************************)
EXTENDS Integers, Sequences, FiniteSets, TLC

(***************************************************************************)
(* Bounds of the model.                                                    *)
(***************************************************************************)
MaxSlots == 2         \* elaborate requests whose responses are observed at once
MaxInFlight == 1      \* elaborate requests inside the pipeline at once (Spec)
MaxRuns == 2          \* pipeline runs (cache misses) in one behaviour
MaxResults == 1       \* organic results the search provider returns
MaxRankLen == 2       \* indices the ranking model returns, chosen freely
MaxLongRank == 7      \* indices the ranking model returns when it repeats one
MaxNow == 24          \* last instant of the clock, in hours
MaxEdits == 1         \* PATCH requests issued in one behaviour
MaxUploads == 1       \* image uploads accepted by multer in one behaviour
MaxRequests == 33     \* requests one rate-limit window sees
MaxInputs == 2        \* input events of the client in one behaviour
MaxSaves == 1         \* save requests of the client in flight at once

(***************************************************************************)
(* Program constants.                                                      *)
(***************************************************************************)
CACHE_TTL_HOURS == 24     \* isCacheValid(note.updatedAt, 24)
RERANK_TOP_N == 6         \* rerankResults(..., 6) and .slice(0, 6)
SUMMARY_CHARS == 200      \* note.bodyMd.substring(0, 200)
TITLE_CHARS == 100        \* captionData.caption.substring(0, 100)
CHARS_PER_TOKEN == 4      \* Math.ceil(totalChars / 4)
TickHours == 12           \* granularity of the modelled clock
IP_MAX == 100             \* ipRateLimiter: max
USER_MAX == 200           \* userRateLimiter: max
AI_MAX == 30              \* aiOperationRateLimiter: max

NULL == <<"null">>            \* JS null / SQL NULL in a string-valued place
UNDEFINED == <<"undefined">>  \* JS undefined (field absent from a request body)
NotAString == <<"non-string">>  \* a JS value whose typeof is not 'string'
NoTime == -1                  \* a null / undefined timestamp
MS_PER_HOUR == 3600000        \* 1000 * 60 * 60

\* typeof x === 'string'
IsString(x) == x \notin {NULL, UNDEFINED, NotAString}

\* !x for a string-valued place: null, undefined and '' are falsy
Falsy(x) == x \in {NULL, UNDEFINED, <<>>}

Reqs == 1..MaxSlots
NoteIds == {"n1"}             \* notes that exist in the store
RequestIds == NoteIds \cup {"nx"}   \* "nx" is an id no note has

\* bodies a PATCH request sets (the note is created with body "a")
BodyValues == { <<>>, <<" ">>, <<"a", " ">>, <<"b">> }

VARIABLES
  now,        \* wall clock (Date.now()), hours
  notes,      \* notes table: id -> [kind, bodyMd, elaborationJson, updatedAt]
  refRows,    \* references table: id -> set of rows [rank,title,url,snippet,by]
  pc,         \* position of each elaborate request in the handler
  args,       \* req.params.id and req.body.force of each request
  loc,        \* the handler's local constants of each request
  resp,       \* the HTTP response of each request
  log,        \* the stages each request has invoked, in order
  edits,      \* PATCH requests served so far
  runs,       \* pipeline runs started so far
  persistedAt, \* when the stored elaboration of each note was written, hours
  call,       \* the last direct call of a service function: input and outcome
  upload,     \* the POST /notes/image request being served
  imageNotes, \* the image notes created by POST /notes/image
  uploadedFiles, \* the files in uploads/images
  generatedFrom, \* the body each pipeline run passed to the Citation Generator
  limiter,    \* the hit counters of the rate limiters and the last answer
  client      \* the browser client (public/app.js)

vars == <<now, notes, refRows, pc, args, loc, resp, log, edits, runs,
         persistedAt, call, upload, imageNotes, uploadedFiles,
         generatedFrom, limiter, client>>

(***************************************************************************)
(* Pure helpers.                                                           *)
(***************************************************************************)
Min(a, b) == IF a < b THEN a ELSE b

\* Math.ceil(a / b) for a >= 0, b > 0
Ceil(a, b) == (a + b - 1) \div b

\* String.prototype.trim
RECURSIVE TrimLeft(_)
TrimLeft(s) == IF s # <<>> /\ Head(s) = " " THEN TrimLeft(Tail(s)) ELSE s

RECURSIVE TrimRight(_)
TrimRight(s) ==
  IF s # <<>> /\ s[Len(s)] = " " THEN TrimRight(SubSeq(s, 1, Len(s) - 1)) ELSE s

Trim(s) == TrimRight(TrimLeft(s))

\* String.prototype.substring(0, n)
Substring0(s, n) == SubSeq(s, 1, Min(n, Len(s)))

\* crypto.createHash('sha256').update(x).digest('hex') is taken as injective
generateHash(content) ==
  IF Falsy(content) \/ ~IsString(content)
    THEN <<>>
    ELSE <<"sha256", Trim(content)>>

\* new Date(x).getTime() of a timestamp of the store: milliseconds
DateOf(hours) == hours * MS_PER_HOUR

\* mutant: the difference is divided by the milliseconds of a minute
AgeInHours_PerMinute(cachedAt, nowAt) == [num |-> nowAt - cachedAt, den |-> 60000]

\* ageInHours = (now - cacheDate) / (1000 * 60 * 60), as a fraction
AgeInHours(cachedAt, nowAt) == [num |-> nowAt - cachedAt, den |-> MS_PER_HOUR]

\* mutant: the boundary is taken as valid (ageInHours <= ttlHours)
isCacheValid_Inclusive(cachedAt, ttlHours, nowAt) ==
  IF cachedAt = NoTime THEN FALSE
  ELSE AgeInHours(cachedAt, nowAt).num <= ttlHours * AgeInHours(cachedAt, nowAt).den

\* isCacheValid(cachedAt, ttlHours) at the instant nowAt; instants are in
\* milliseconds
isCacheValid(cachedAt, ttlHours, nowAt) ==
  IF cachedAt = NoTime THEN FALSE
  ELSE AgeInHours(cachedAt, nowAt).num < ttlHours * AgeInHours(cachedAt, nowAt).den

(***************************************************************************)
(* Collaborators whose answers the handler cannot predict.                 *)
(***************************************************************************)
\* searchWeb: the i-th organic result of the provider, normalised
SearchResultAt(i) ==
  [title |-> <<"title", i>>, url |-> <<"url", i>>,
   snippet |-> IF i % 2 = 0 THEN <<>> ELSE <<"snippet", i>>]

\* what buildQueries(note.bodyMd, 1) can return
QueryOutcomes ==
  { [queries |-> << <<"q">> >>, keywords |-> << <<"k">>, <<"w">> >>],
    [queries |-> <<>>,          keywords |-> <<>>] }

\* Array.prototype.join(' ') over words
RECURSIVE Join(_)
Join(words) ==
  IF words = <<>> THEN <<>>
  ELSE IF Len(words) = 1 THEN Head(words)
  ELSE Head(words) \o <<" ">> \o Join(Tail(words))

\* the index lists the ranking model can return for n results:
\* 0-based, possibly repeated, possibly outside 0..n-1, possibly longer than
\* the topN it was asked for (the lists of topN indices or more repeat index 0)
RankOutcomes(n) ==
  UNION { [1..k -> (0 - 1)..n] : k \in 0..MaxRankLen }
    \cup { [i \in 1..k |-> 0] : k \in RERANK_TOP_N..MaxLongRank }

\* mutant: the list is passed on whole
Slice0_Whole(s, n) == s

\* Array.prototype.slice(0, n)
Slice0(s, n) == SubSeq(s, 1, Min(n, Len(s)))

\* rerankResults(noteContent, searchResults, topN) given the model's answer
rerankResults(searchResults, topN, answer) ==
  IF Len(searchResults) = 0
    THEN [rankedIndices |-> <<>>, reasoning |-> "No results to rank"]
    ELSE [rankedIndices |-> Slice0(answer, topN), reasoning |-> ""]

\* searchResults[idx] with a 0-based idx; undefined outside the array
ArrayAt(arr, idx) ==
  IF idx >= 0 /\ idx < Len(arr) THEN arr[idx + 1] ELSE UNDEFINED

(***************************************************************************)
(* Sizes used by the token estimate.                                       *)
(***************************************************************************)
RECURSIVE SumLen(_)
SumLen(ss) == IF ss = <<>> THEN 0 ELSE Len(Head(ss)) + SumLen(Tail(ss))

\* JSON.stringify(topSources).length, counted over the fields' characters
JsonLength(sources) ==
  SumLen([i \in 1..Len(sources) |->
            sources[i].title \o sources[i].url \o sources[i].snippet])

\* elaborationContent.length
ContentLength(content) == Len(content)

(***************************************************************************)
(* The store.                                                              *)
(***************************************************************************)
NoBlob == [kind |-> "null"]                  \* elaboration_json IS NULL
CaptionBlob == [kind |-> "caption"]          \* written by POST /notes/image
CorruptBlob == [kind |-> "corrupt"]          \* text that JSON.parse rejects
NullJsonBlob == [kind |-> "jsonNull"]        \* the text "null"

\* JSON.stringify(responseData)
JsonStringify(responseData) ==
  [kind |-> "elaboration",
   contentHash |-> responseData.contentHash,
   sections |-> responseData.sections,
   references |-> responseData.references,
   searchQuery |-> responseData.searchQuery,
   tokens |-> responseData.tokens]

\* JSON.parse(note.elaborationJson): TRUE iff it throws
ParseThrows(blob) == blob.kind = "corrupt"

\* cached.contentHash: TRUE iff reading the property throws (cached is null)
ContentHashThrows(blob) == blob.kind = "jsonNull"

\* cached.contentHash of the parsed blob (undefined when the field is absent)
CachedContentHash(blob) ==
  IF blob.kind = "elaboration" THEN blob.contentHash ELSE UNDEFINED

\* include: { references: { orderBy: { rank: 'asc' } } }: every order of the
\* rows that is ascending in rank (rows of equal rank come in any order)
RECURSIVE OrderByRank(_)
OrderByRank(rows) ==
  IF rows = {} THEN { <<>> }
  ELSE LET least == { x \in rows : \A y \in rows : x.rank <= y.rank }
       IN  UNION { { <<x>> \o t : t \in OrderByRank(rows \ {x}) } : x \in least }

\* references: note.references.map(ref => ({rank, title, url, snippet}))
RefView(row) ==
  [rank |-> row.rank, title |-> row.title, url |-> row.url,
   snippet |-> row.snippet]

\* @updatedAt: every update of a note row stamps updated_at with the clock
TouchUpdatedAt(note, nowAt) == [note EXCEPT !.updatedAt = nowAt]

(***************************************************************************)
(* Requests.                                                               *)
(***************************************************************************)
NoResp == [status |-> 0]
NoCall == [fn |-> "none"]

\* req.file when no file came with the request
NoFile == [name |-> 0, mimetype |-> "none", oversized |-> FALSE]

\* no request under way; captionData as the handler declares it,
\* let captionData = {caption: 'Image uploaded', description: '', tags: []}
NoUpload ==
  [pc |-> "idle", seq |-> 0, chapterId |-> "", file |-> NoFile,
   captionData |-> [caption |-> <<"Image", "uploaded">>,
                    description |-> <<>>, tags |-> <<>>],
   captionThrew |-> FALSE, unlink |-> "none",
   resp |-> NoResp]

\* the variables of POST /notes/image
imageVars == <<upload, imageNotes, uploadedFiles>>

\* the variables of PATCH /notes/:id and POST /notes/:id/elaborate
noteVars ==
  <<now, notes, refRows, pc, args, loc, resp, log, edits, runs, persistedAt,
    generatedFrom>>

\* the addresses requests come from, and the userId values they carry in
\* the body or in the query string ("" when the field is absent)
ClientIps == {"ip1"}
UserIds == {"", "u1", "u2"}

\* a || b of JS for strings
Or(a, b) == IF a # "" THEN a ELSE b

\* keyGenerator of userRateLimiter
UserKey(userId, ip) == Or(userId, ip)

\* keyGenerator of aiOperationRateLimiter: `${userId}:${ip}`
AiKey(userId, ip) == <<Or(userId, "anonymous"), ip>>

\* the rate limiters before any request of the window
NoLimiter ==
  [ip |-> [a \in ClientIps |-> 0],
   user |-> [k \in { UserKey(u, a) : u \in UserIds, a \in ClientIps } |-> 0],
   ai |-> [k \in { AiKey(u, a) : u \in UserIds, a \in ClientIps } |-> 0],
   reached |-> [a \in ClientIps |-> 0],
   last |-> [status |-> 0, by |-> "none"]]

\* the notes the client can open, and what its fields can hold
ClientNotes == {"n1", "n2"}
Typed == {"a", "b"}

\* the client after DOMContentLoaded: no note open, nothing typed, the online
\* handler (sync) not running; server holds what the server stores for each
\* note, requested the content of the last save request for the open note
NoClient ==
  [currentNote |-> "none", editor |-> "", hasUnsavedChanges |-> FALSE,
   saveTimeout |-> FALSE, focus |-> FALSE, onLine |-> TRUE,
   offlineQueue |-> <<>>, saves |-> {},
   sync |-> [pc |-> "idle", todo |-> <<>>, outcome |-> "none"],
   server |-> [n \in ClientNotes |-> ""], requested |-> "", inputs |-> 0]

NoArgs == [id |-> "nx", force |-> FALSE]
NoLoc ==
  [note |-> [bodyMd |-> <<>>, references |-> <<>>],
   contentHash |-> <<>>, searchQuery |-> <<>>, searchResults |-> <<>>,
   topSources |-> <<>>, elaborationContent |-> <<>>, run |-> 0]

InPipeline ==
  {"buildQueries", "searchWeb", "rerankResults", "elaborateNote",
   "elaborateNoResults", "deleteMany", "createMany", "noteUpdate",
   "noteUpdateNoResults"}

InFlight == { r \in Reqs : pc[r] \in InPipeline }

\* the response of a request answered at once ("answered") or with an error
\* ("failed") is taken by its client before the server does anything else
Quiet == \A q \in Reqs : pc[q] \notin {"answered", "failed"}

\* the stage a request at this position invokes next
StageOf(p) ==
  CASE p = "buildQueries" -> "buildQueries"
    [] p = "searchWeb" -> "searchWeb"
    [] p = "rerankResults" -> "rerankResults"
    [] p = "elaborateNote" -> "elaborateNote"
    [] p = "elaborateNoResults" -> "elaborateNote"
    [] p = "deleteMany" -> "deleteMany"
    [] p = "createMany" -> "createMany"
    [] p = "noteUpdate" -> "noteUpdate"
    [] p = "noteUpdateNoResults" -> "noteUpdate"

\* mutant: the status of the upstream failure is passed on to the client
ErrorResponse_UpstreamStatus(message) ==
  [status |-> 401, error |-> [message |-> message]]

\* res.status(err.status || 500).json({error: {message}}); the errors the
\* pipeline throws are plain Error objects without a status
ErrorResponse(message) == [status |-> 500, error |-> [message |-> message]]

Init ==
  /\ now = 0
  /\ \E kind \in {"text", "image"} :
       notes = [n \in NoteIds |->
                  IF kind = "text"
                    THEN [kind |-> "text", bodyMd |-> <<"a">>,
                          elaborationJson |-> NoBlob, updatedAt |-> 0]
                    ELSE [kind |-> "image", bodyMd |-> NULL,
                          elaborationJson |-> CaptionBlob, updatedAt |-> 0]]
  /\ refRows = [n \in NoteIds |-> {}]
  /\ pc = [r \in Reqs |-> "new"]
  /\ args = [r \in Reqs |-> NoArgs]
  /\ loc = [r \in Reqs |-> NoLoc]
  /\ resp = [r \in Reqs |-> NoResp]
  /\ log = [r \in Reqs |-> <<>>]
  /\ edits = 0
  /\ runs = 0
  /\ persistedAt = [n \in NoteIds |-> NoTime]
  /\ call = NoCall
  /\ upload = NoUpload
  /\ imageNotes = {}
  /\ uploadedFiles = {}
  /\ generatedFrom = [run \in 1..MaxRuns |-> NULL]
  /\ limiter = NoLimiter
  /\ client = NoClient

\* the clock advances
Tick ==
  /\ Quiet
  /\ now + TickHours <= MaxNow
  /\ now' = now + TickHours
  /\ UNCHANGED <<notes, refRows, pc, args, loc, resp, log, edits, runs,
                 persistedAt, call, imageVars, generatedFrom, limiter, client>>

\* PATCH /notes/:id with {bodyMd} (bodyMd = UNDEFINED: only other fields)
PatchNote(id, bodyMd) ==
  /\ Quiet
  /\ edits < MaxEdits
  /\ edits' = edits + 1
  /\ notes' = [notes EXCEPT ![id] =
       TouchUpdatedAt(
         IF bodyMd # UNDEFINED THEN [@ EXCEPT !.bodyMd = bodyMd] ELSE @,
         now)]
  /\ UNCHANGED <<now, refRows, pc, args, loc, resp, log, runs,
                 persistedAt, call, imageVars, generatedFrom, limiter, client>>

(***************************************************************************)
(* POST /notes/:id/elaborate                                               *)
(***************************************************************************)
\* the text the generative model returns to request r: unpredictable, and
\* different from the text of every other call
GeneratedText(run) == <<"elaboration", "of", "run", run>>

\* queries[0] || keywords.join(' ')
ChooseSearchQuery(out) ==
  IF out.queries # <<>> /\ Head(out.queries) # <<>>
    THEN Head(out.queries)
    ELSE Join(out.keywords)

\* mutant: the stored hash is not compared with the hash of the body
CacheHit_AnyHash(note, force, nowAt) ==
  /\ note.elaborationJson # NoBlob
  /\ ~force
  /\ note.elaborationJson.kind = "elaboration"
  /\ isCacheValid(DateOf(note.updatedAt), CACHE_TTL_HOURS, DateOf(nowAt))

\* cached.contentHash === contentHash && isCacheValid(note.updatedAt, 24),
\* under note.elaborationJson && !force, with a throwing parse caught
CacheHit(note, force, nowAt) ==
  /\ note.elaborationJson # NoBlob
  /\ ~force
  /\ ~ParseThrows(note.elaborationJson)
  /\ ~ContentHashThrows(note.elaborationJson)
  /\ CachedContentHash(note.elaborationJson) = generateHash(note.bodyMd)
  /\ isCacheValid(DateOf(note.updatedAt), CACHE_TTL_HOURS, DateOf(nowAt))

\* res.json({sections, references, metadata: {cached: true, ...}})
CachedResponse(note) ==
  [status |-> 200,
   sections |-> note.elaborationJson.sections,
   references |-> note.references,
   metadata |-> [cached |-> TRUE,
                 cacheAge |-> note.updatedAt,
                 searchQuery |-> note.elaborationJson.searchQuery,
                 tokens |-> note.elaborationJson.tokens]]

\* mutant: the body is not trimmed before its length is tested
IsEmptyNote_NoTrim(bodyMd) == bodyMd = NULL \/ Len(bodyMd) = 0

\* !note.bodyMd || note.bodyMd.trim().length === 0
IsEmptyNote(bodyMd) == bodyMd = NULL \/ Len(Trim(bodyMd)) = 0

\* the try block around the cache check throws
CacheCheckThrows(note, force) ==
  /\ note.elaborationJson # NoBlob
  /\ ~force
  /\ ParseThrows(note.elaborationJson) \/ ContentHashThrows(note.elaborationJson)

\* mutant: the error of the cache check is passed to next(error)
AfterCacheCheckThrows_Fail == "failed"

\* catch (parseError) { console.warn(...) }: the handler goes on to Step 4
AfterCacheCheckThrows == "buildQueries"

\* mutant: res.json(...) without return, the handler runs on
AfterCacheHit_FallThrough == "buildQueries"

\* "return res.json(...)" of the cache hit: the handler ends there
AfterCacheHit == "answered"

\* mutant: no branch for an empty result list
AfterSearch_AlwaysRerank(results) == "rerankResults"

\* if (searchResults.length === 0) { ... return } else re-rank
AfterSearch(results) ==
  IF Len(results) = 0 THEN "elaborateNoResults" ELSE "rerankResults"

\* prisma.note.findUnique({where: {id}, include: {references: {orderBy}}})
FindUnique(id, orderedRows) ==
  [bodyMd |-> notes[id].bodyMd,
   elaborationJson |-> notes[id].elaborationJson,
   updatedAt |-> notes[id].updatedAt,
   references |-> [i \in 1..Len(orderedRows) |-> RefView(orderedRows[i])]]

\* Steps 1-3: load the note, validate it, check the cache
LoadNote(r, id, force, limit) ==
  /\ Quiet
  /\ pc[r] = "new"
  /\ \A q \in Reqs : q < r => pc[q] # "new"
  /\ args' = [args EXCEPT ![r] = [id |-> id, force |-> force]]
  /\ IF id \notin DOMAIN notes
       THEN /\ resp' = [resp EXCEPT ![r] =
                 [status |-> 404, error |-> [message |-> "Note not found"]]]
            /\ pc' = [pc EXCEPT ![r] = "answered"]
            /\ UNCHANGED <<loc, runs>>
       ELSE \E ordered \in OrderByRank(refRows[id]) :
         LET note == FindUnique(id, ordered) IN
         IF IsEmptyNote(note.bodyMd)
         THEN /\ resp' = [resp EXCEPT ![r] =
                   [status |-> 400,
                    error |-> [message |-> "Cannot elaborate on an empty note"]]]
              /\ pc' = [pc EXCEPT ![r] = "answered"]
              /\ UNCHANGED <<loc, runs>>
         ELSE IF CacheCheckThrows(note, force)
                   /\ AfterCacheCheckThrows = "failed"
         THEN /\ resp' = [resp EXCEPT ![r] = ErrorResponse("JSON.parse")]
              /\ pc' = [pc EXCEPT ![r] = "failed"]
              /\ UNCHANGED <<loc, runs>>
         ELSE IF CacheHit(note, force, now)
         THEN /\ resp' = [resp EXCEPT ![r] = CachedResponse(note)]
              /\ pc' = [pc EXCEPT ![r] = AfterCacheHit]
              /\ UNCHANGED <<loc, runs>>
         ELSE /\ runs < MaxRuns
              /\ Cardinality(InFlight) < limit
              /\ runs' = runs + 1
              /\ pc' = [pc EXCEPT ![r] = "buildQueries"]
              /\ loc' = [loc EXCEPT ![r] =
                   [NoLoc EXCEPT !.note = [bodyMd |-> note.bodyMd,
                                           references |-> note.references],
                                 !.contentHash = generateHash(note.bodyMd),
                                 !.run = runs + 1]]
              /\ resp' = resp
  /\ UNCHANGED <<now, notes, refRows, log, edits, persistedAt, call, imageVars,
                 generatedFrom, limiter, client>>

\* the response has been sent and the request is over
Forget(r) ==
  /\ pc[r] \in {"answered", "done", "failed"}
  /\ pc' = [pc EXCEPT ![r] = "new"]
  /\ args' = [args EXCEPT ![r] = NoArgs]
  /\ resp' = [resp EXCEPT ![r] = NoResp]
  /\ log' = [log EXCEPT ![r] = <<>>]
  /\ UNCHANGED <<now, notes, refRows, loc, edits, runs,
                 persistedAt, call, imageVars, generatedFrom, limiter, client>>

\* Step 4a: buildQueries(note.bodyMd, 1) returns
BuildQueries(r) ==
  /\ Quiet
  /\ pc[r] = "buildQueries"
  /\ \E out \in QueryOutcomes :
       loc' = [loc EXCEPT ![r].searchQuery = ChooseSearchQuery(out)]
  /\ pc' = [pc EXCEPT ![r] = "searchWeb"]
  /\ log' = [log EXCEPT ![r] = Append(@, "buildQueries")]
  /\ UNCHANGED <<now, notes, refRows, args, resp, edits, runs,
                 persistedAt, call, imageVars, generatedFrom, limiter, client>>

\* Step 4b: searchWeb(searchQuery, 10, 'us') returns, or rejects an empty
\* query before any network call
SearchWeb(r) ==
  /\ Quiet
  /\ pc[r] = "searchWeb"
  /\ log' = [log EXCEPT ![r] = Append(@, "searchWeb")]
  /\ IF Len(Trim(loc[r].searchQuery)) = 0
       THEN /\ resp' = [resp EXCEPT ![r] =
                 ErrorResponse("Search query (q) must be a non-empty string")]
            /\ pc' = [pc EXCEPT ![r] = "failed"]
            /\ loc' = [loc EXCEPT ![r] = NoLoc]
       ELSE /\ \E results \in { [i \in 1..k |-> SearchResultAt(i)] :
                                  k \in 0..MaxResults } :
                 /\ loc' = [loc EXCEPT ![r].searchResults = results]
                 /\ pc' = [pc EXCEPT ![r] = AfterSearch(results)]
            /\ resp' = resp
  /\ UNCHANGED <<now, notes, refRows, args, edits, runs,
                 persistedAt, call, imageVars, generatedFrom, limiter, client>>

\* Step 4c: rerankResults(note.bodyMd, searchResults, 6) returns; the indices
\* are dereferenced, and topSources.forEach reads source.title
RerankResults(r) ==
  /\ Quiet
  /\ pc[r] = "rerankResults"
  /\ log' = [log EXCEPT ![r] = Append(@, "rerankResults")]
  /\ \E answer \in RankOutcomes(Len(loc[r].searchResults)) :
       LET reranked == rerankResults(loc[r].searchResults, RERANK_TOP_N, answer)
           selectedIndices == Slice0(reranked.rankedIndices, RERANK_TOP_N)
           topSources == [i \in 1..Len(selectedIndices) |->
                            ArrayAt(loc[r].searchResults, selectedIndices[i])]
           undefinedSource ==
             \E i \in 1..Len(selectedIndices) :
               selectedIndices[i] < 0
                 \/ selectedIndices[i] >= Len(loc[r].searchResults)
       IN  IF undefinedSource
             THEN /\ resp' = [resp EXCEPT ![r] =
                       ErrorResponse("Cannot read properties of undefined")]
                  /\ pc' = [pc EXCEPT ![r] = "failed"]
                  /\ loc' = [loc EXCEPT ![r] = NoLoc]
             ELSE /\ loc' = [loc EXCEPT ![r].topSources = topSources]
                  /\ pc' = [pc EXCEPT ![r] = "elaborateNote"]
                  /\ resp' = resp
  /\ UNCHANGED <<now, notes, refRows, args, edits, runs,
                 persistedAt, call, imageVars, generatedFrom, limiter, client>>

\* Step 5: sections of a fresh elaboration with sources
Sections(l) ==
  << [type |-> "summary", content |-> Substring0(l.note.bodyMd, SUMMARY_CHARS)],
     [type |-> "elaboration", content |-> l.elaborationContent] >>

\* references = topSources.map((source, idx) => ({rank: idx + 1, ...}))
References(l) ==
  [i \in 1..Len(l.topSources) |->
     [rank |-> i, title |-> l.topSources[i].title,
      url |-> l.topSources[i].url, snippet |-> l.topSources[i].snippet]]

\* tokens of a fresh elaboration with sources
Tokens(l) ==
  [total |-> Ceil(Len(l.note.bodyMd) + ContentLength(l.elaborationContent)
                    + JsonLength(l.topSources), CHARS_PER_TOKEN),
   input |-> Ceil(Len(l.note.bodyMd) + JsonLength(l.topSources), CHARS_PER_TOKEN),
   output |-> Ceil(ContentLength(l.elaborationContent), CHARS_PER_TOKEN)]

\* responseData of the path with sources
ResponseData(l) ==
  [contentHash |-> l.contentHash, sections |-> Sections(l),
   references |-> References(l), searchQuery |-> l.searchQuery,
   tokens |-> Tokens(l)]

\* responseData of the path without search results
ResponseDataNoResults(l) ==
  [contentHash |-> l.contentHash,
   sections |-> << [type |-> "elaboration", content |-> l.elaborationContent] >>,
   references |-> <<>>, searchQuery |-> l.searchQuery,
   tokens |-> [total |-> 0]]

\* Step 4d: elaborateNoteOpenAI(note.bodyMd, topSources) returns
ElaborateNote(r) ==
  /\ Quiet
  /\ pc[r] = "elaborateNote"
  /\ log' = [log EXCEPT ![r] = Append(@, "elaborateNote")]
  /\ loc' = [loc EXCEPT ![r].elaborationContent = GeneratedText(loc[r].run)]
  /\ generatedFrom' = [generatedFrom EXCEPT ![loc[r].run] = loc[r].note.bodyMd]
  /\ pc' = [pc EXCEPT ![r] = "deleteMany"]
  /\ UNCHANGED <<now, notes, refRows, args, resp, edits, runs,
                 persistedAt, call, imageVars, limiter, client>>

\* mutant: deleteMany without the where clause
DeleteMany_EveryNote(r) ==
  /\ Quiet
  /\ pc[r] = "deleteMany"
  /\ log' = [log EXCEPT ![r] = Append(@, "deleteMany")]
  /\ refRows' = [n \in DOMAIN refRows |-> {}]
  /\ pc' = [pc EXCEPT ![r] =
       IF Len(References(loc[r])) > 0 THEN "createMany" ELSE "noteUpdate"]
  /\ UNCHANGED <<now, notes, args, loc, resp, edits, runs,
                 persistedAt, call, imageVars, generatedFrom, limiter, client>>

\* Step 6: prisma.reference.deleteMany({where: {noteId: id}})
DeleteMany(r) ==
  /\ Quiet
  /\ pc[r] = "deleteMany"
  /\ log' = [log EXCEPT ![r] = Append(@, "deleteMany")]
  /\ refRows' = [refRows EXCEPT ![args[r].id] = {}]
  /\ pc' = [pc EXCEPT ![r] =
       IF Len(References(loc[r])) > 0 THEN "createMany" ELSE "noteUpdate"]
  /\ UNCHANGED <<now, notes, args, loc, resp, edits, runs,
                 persistedAt, call, imageVars, generatedFrom, limiter, client>>

\* Step 6: prisma.reference.createMany({data: references.map(...)})
CreateMany(r) ==
  /\ Quiet
  /\ pc[r] = "createMany"
  /\ log' = [log EXCEPT ![r] = Append(@, "createMany")]
  /\ refRows' = [refRows EXCEPT ![args[r].id] =
       @ \cup { [rank |-> References(loc[r])[i].rank,
                 title |-> References(loc[r])[i].title,
                 url |-> References(loc[r])[i].url,
                 snippet |-> References(loc[r])[i].snippet,
                 by |-> loc[r].run] : i \in 1..Len(References(loc[r])) }]
  /\ pc' = [pc EXCEPT ![r] = "noteUpdate"]
  /\ UNCHANGED <<now, notes, args, loc, resp, edits, runs,
                 persistedAt, call, imageVars, generatedFrom, limiter, client>>

\* Step 6-7: prisma.note.update({data: {elaborationJson}}), then res.json
NoteUpdate(r) ==
  /\ Quiet
  /\ pc[r] = "noteUpdate"
  /\ log' = [log EXCEPT ![r] = Append(@, "noteUpdate")]
  /\ notes' = [notes EXCEPT ![args[r].id] =
       TouchUpdatedAt(
         [@ EXCEPT !.elaborationJson = JsonStringify(ResponseData(loc[r]))],
         now)]
  /\ resp' = [resp EXCEPT ![r] =
       [status |-> 200,
        sections |-> Sections(loc[r]),
        references |-> References(loc[r]),
        metadata |-> [cached |-> FALSE,
                      searchQuery |-> loc[r].searchQuery,
                      tokens |-> Tokens(loc[r]),
                      sourcesFound |-> Len(loc[r].searchResults),
                      sourcesUsed |-> Len(loc[r].topSources)]]]
  /\ pc' = [pc EXCEPT ![r] = "done"]
  /\ loc' = [loc EXCEPT ![r] = NoLoc]
  /\ persistedAt' = [persistedAt EXCEPT ![args[r].id] = now]
  /\ UNCHANGED <<now, refRows, args, edits, runs, call, imageVars,
                 generatedFrom, limiter, client>>

\* no search results: elaborateNoteOpenAI(note.bodyMd, []) returns
ElaborateNoResults(r) ==
  /\ Quiet
  /\ pc[r] = "elaborateNoResults"
  /\ log' = [log EXCEPT ![r] = Append(@, "elaborateNote")]
  /\ loc' = [loc EXCEPT ![r].elaborationContent = GeneratedText(loc[r].run)]
  /\ generatedFrom' = [generatedFrom EXCEPT ![loc[r].run] = loc[r].note.bodyMd]
  /\ pc' = [pc EXCEPT ![r] = "noteUpdateNoResults"]
  /\ UNCHANGED <<now, notes, refRows, args, resp, edits, runs,
                 persistedAt, call, imageVars, limiter, client>>

\* no search results: prisma.note.update({data: {elaborationJson}}), res.json
NoteUpdateNoResults(r) ==
  /\ Quiet
  /\ pc[r] = "noteUpdateNoResults"
  /\ log' = [log EXCEPT ![r] = Append(@, "noteUpdate")]
  /\ notes' = [notes EXCEPT ![args[r].id] =
       TouchUpdatedAt(
         [@ EXCEPT !.elaborationJson =
            JsonStringify(ResponseDataNoResults(loc[r]))],
         now)]
  /\ resp' = [resp EXCEPT ![r] =
       [status |-> 200,
        sections |-> ResponseDataNoResults(loc[r]).sections,
        references |-> <<>>,
        metadata |-> [cached |-> FALSE,
                      searchQuery |-> loc[r].searchQuery,
                      tokens |-> ResponseDataNoResults(loc[r]).tokens]]]
  /\ pc' = [pc EXCEPT ![r] = "done"]
  /\ loc' = [loc EXCEPT ![r] = NoLoc]
  /\ persistedAt' = [persistedAt EXCEPT ![args[r].id] = now]
  /\ UNCHANGED <<now, refRows, args, edits, runs, call, imageVars,
                 generatedFrom, limiter, client>>

\* an awaited call of the pipeline rejects: catch (error) { next(error) },
\* answered by the error handler of server.js
StageThrows(r) ==
  /\ Quiet
  /\ pc[r] \in InPipeline
  /\ log' = [log EXCEPT ![r] = Append(@, StageOf(pc[r]))]
  /\ resp' = [resp EXCEPT ![r] = ErrorResponse(StageOf(pc[r]))]
  /\ pc' = [pc EXCEPT ![r] = "failed"]
  /\ loc' = [loc EXCEPT ![r] = NoLoc]
  /\ UNCHANGED <<now, notes, refRows, args, edits, runs,
                 persistedAt, call, imageVars, generatedFrom, limiter, client>>

Next ==
  \/ Tick
  \/ \E id \in NoteIds, bodyMd \in BodyValues \cup {UNDEFINED} :
       PatchNote(id, bodyMd)
  \/ \E r \in Reqs, id \in RequestIds, force \in BOOLEAN :
       LoadNote(r, id, force, MaxInFlight)
  \/ \E r \in Reqs : BuildQueries(r)
  \/ \E r \in Reqs : SearchWeb(r)
  \/ \E r \in Reqs : RerankResults(r)
  \/ \E r \in Reqs : ElaborateNote(r)
  \/ \E r \in Reqs : DeleteMany(r)
  \/ \E r \in Reqs : CreateMany(r)
  \/ \E r \in Reqs : NoteUpdate(r)
  \/ \E r \in Reqs : ElaborateNoResults(r)
  \/ \E r \in Reqs : NoteUpdateNoResults(r)
  \/ \E r \in Reqs : StageThrows(r)
  \/ \E r \in Reqs : Forget(r)

\* requests arrive while the note is edited and time passes; the pipeline
\* serves MaxInFlight of them at a time
Spec == Init /\ [][Next]_vars

\* requests that overlap in the pipeline, on a note nobody edits meanwhile
NextConc ==
  \/ \E r \in Reqs, id \in RequestIds, force \in BOOLEAN :
       LoadNote(r, id, force, MaxSlots)
  \/ \E r \in Reqs : BuildQueries(r)
  \/ \E r \in Reqs : SearchWeb(r)
  \/ \E r \in Reqs : RerankResults(r)
  \/ \E r \in Reqs : ElaborateNote(r)
  \/ \E r \in Reqs : DeleteMany(r)
  \/ \E r \in Reqs : CreateMany(r)
  \/ \E r \in Reqs : NoteUpdate(r)
  \/ \E r \in Reqs : ElaborateNoResults(r)
  \/ \E r \in Reqs : NoteUpdateNoResults(r)
  \/ \E r \in Reqs : StageThrows(r)
  \/ \E r \in Reqs : Forget(r)

SpecConc == Init /\ [][NextConc]_vars

\* requests that overlap in the pipeline while the note is edited
NextConcEdits ==
  \/ \E id \in NoteIds, bodyMd \in BodyValues \cup {UNDEFINED} :
       PatchNote(id, bodyMd)
  \/ NextConc

SpecConcEdits == Init /\ [][NextConcEdits]_vars

\* a note with a body whose stored blob is no elaboration record: text
\* that does not parse, the text "null", or the caption blob of an image note
\* that was given a body
InitCorruptBlob ==
  /\ now = 0
  /\ \E blob \in {CorruptBlob, NullJsonBlob, CaptionBlob} :
       notes = [n \in NoteIds |->
                  [kind |-> IF blob = CaptionBlob THEN "image" ELSE "text",
                   bodyMd |-> <<"a">>, elaborationJson |-> blob,
                   updatedAt |-> 0]]
  /\ refRows = [n \in NoteIds |-> {}]
  /\ pc = [r \in Reqs |-> "new"]
  /\ args = [r \in Reqs |-> NoArgs]
  /\ loc = [r \in Reqs |-> NoLoc]
  /\ resp = [r \in Reqs |-> NoResp]
  /\ log = [r \in Reqs |-> <<>>]
  /\ edits = 0
  /\ runs = 0
  /\ persistedAt = [n \in NoteIds |-> NoTime]
  /\ call = NoCall
  /\ upload = NoUpload
  /\ imageNotes = {}
  /\ uploadedFiles = {}
  /\ generatedFrom = [run \in 1..MaxRuns |-> NULL]
  /\ limiter = NoLimiter
  /\ client = NoClient

SpecCorruptBlob == InitCorruptBlob /\ [][NextConc]_vars

\* a store with two text notes of different bodies
TwoNotes == {"n1", "n2"}

InitTwoNotes ==
  /\ now = 0
  /\ notes = [n \in TwoNotes |->
       [kind |-> "text", bodyMd |-> IF n = "n1" THEN <<"a">> ELSE <<"b">>,
        elaborationJson |-> NoBlob, updatedAt |-> 0]]
  /\ refRows = [n \in TwoNotes |-> {}]
  /\ pc = [r \in Reqs |-> "new"]
  /\ args = [r \in Reqs |-> NoArgs]
  /\ loc = [r \in Reqs |-> NoLoc]
  /\ resp = [r \in Reqs |-> NoResp]
  /\ log = [r \in Reqs |-> <<>>]
  /\ edits = 0
  /\ runs = 0
  /\ persistedAt = [n \in TwoNotes |-> NoTime]
  /\ call = NoCall
  /\ upload = NoUpload
  /\ imageNotes = {}
  /\ uploadedFiles = {}
  /\ generatedFrom = [run \in 1..MaxRuns |-> NULL]
  /\ limiter = NoLimiter
  /\ client = NoClient

\* requests for the two notes that overlap in the pipeline
NextTwoNotes ==
  \/ \E r \in Reqs, id \in TwoNotes, force \in BOOLEAN :
       LoadNote(r, id, force, MaxSlots)
  \/ \E r \in Reqs : BuildQueries(r)
  \/ \E r \in Reqs : SearchWeb(r)
  \/ \E r \in Reqs : RerankResults(r)
  \/ \E r \in Reqs : ElaborateNote(r)
  \/ \E r \in Reqs : DeleteMany(r)
  \/ \E r \in Reqs : CreateMany(r)
  \/ \E r \in Reqs : NoteUpdate(r)
  \/ \E r \in Reqs : ElaborateNoResults(r)
  \/ \E r \in Reqs : NoteUpdateNoResults(r)
  \/ \E r \in Reqs : StageThrows(r)
  \/ \E r \in Reqs : Forget(r)

SpecTwoNotes == InitTwoNotes /\ [][NextTwoNotes]_vars

(***************************************************************************)
(* POST /notes/image                                                       *)
(***************************************************************************)
\* chapters that exist
Chapters == {"c1"}

AllowedMimeTypes == {"image/jpeg", "image/jpg", "image/png", "image/webp"}

\* what captionImage(imagePath, context) returns when it returns: caption,
\* description and tags as the model's JSON has them ('' and [] for what it
\* left out); nothing checks their types
CaptionOutcomes ==
  { [caption |-> <<"A", "cat">>, description |-> <<"d">>, tags |-> <<"cat">>],
    [caption |-> <<>>, description |-> <<>>, tags |-> <<>>],
    [caption |-> <<"A", "cat">>, description |-> <<>>, tags |-> NotAString],
    [caption |-> NotAString, description |-> <<>>, tags |-> <<>>] }

\* fs.unlink(req.file.path).catch(warn): the file goes, or stays when the
\* unlink fails
Unlink(files, file) == { files \ {file}, files }

\* what a call of fs.unlink did to the file, seen from the files left
Unlinked(files, file) == IF file \in files THEN "failed" ELSE "done"

\* catch (error) { /* Continue with default caption */ }
AfterCaptionThrows == "create"

\* multer and Steps 1-3: store the file, validate, look the chapter up
ImageRequest(chapterId, kind) ==
  /\ upload.pc = "idle"
  /\ UNCHANGED <<imageNotes>>
  /\ IF kind \in {"gif", "oversized"}
       THEN \* fileFilter / limits.fileSize: multer passes an Error on
            /\ upload' = [upload EXCEPT !.pc = "failed",
                 !.chapterId = chapterId,
                 !.resp = ErrorResponse(IF kind = "gif"
                                          THEN "Invalid file type"
                                          ELSE "File too large")]
            /\ UNCHANGED uploadedFiles
       ELSE LET file == IF kind = "none" THEN NoFile
                        ELSE [name |-> upload.seq + 1,
                              mimetype |-> "image/jpeg", oversized |-> FALSE]
                stored == IF kind = "none" THEN uploadedFiles
                          ELSE uploadedFiles \cup {file}
                seq == IF kind = "none" THEN upload.seq ELSE file.name
                answer(status, message, unlink) ==
                  [upload EXCEPT !.pc = "answered", !.seq = seq,
                     !.chapterId = chapterId, !.file = file,
                     !.unlink = unlink,
                     !.resp = [status |-> status,
                               error |-> [message |-> message]]]
            IN  /\ kind # "none" => upload.seq < MaxUploads
                /\ IF chapterId = ""
                     THEN /\ uploadedFiles' = stored
                          /\ upload' = answer(400, "chapterId is required", "none")
                   ELSE IF file = NoFile
                     THEN /\ uploadedFiles' = stored
                          /\ upload' = answer(400, "Image file is required", "none")
                   ELSE IF file.mimetype \notin AllowedMimeTypes
                     THEN /\ uploadedFiles' \in Unlink(stored, file)
                          /\ upload' = answer(400, "Invalid file type",
                                              Unlinked(uploadedFiles', file))
                   ELSE IF file.oversized
                     THEN /\ uploadedFiles' \in Unlink(stored, file)
                          /\ upload' = answer(400, "File size exceeds maximum",
                                              Unlinked(uploadedFiles', file))
                   ELSE IF chapterId \notin Chapters
                     THEN /\ uploadedFiles' \in Unlink(stored, file)
                          /\ upload' = answer(404, "Chapter not found",
                                              Unlinked(uploadedFiles', file))
                   ELSE /\ upload' = [upload EXCEPT !.pc = "captionImage",
                               !.seq = seq, !.chapterId = chapterId,
                               !.file = file]
                        /\ uploadedFiles' = stored
  /\ UNCHANGED <<noteVars, call, limiter, client>>

\* Step 5: captionImage(imagePath, context) returns or throws; what it
\* returned is assigned before captionData.tags.join is evaluated
CaptionImage ==
  /\ upload.pc = "captionImage"
  /\ \/ \E data \in CaptionOutcomes :
          upload' = [upload EXCEPT !.pc = "create", !.captionData = data]
     \/ upload' = [upload EXCEPT !.pc = AfterCaptionThrows,
                                 !.captionThrew = TRUE,
                                 !.resp = IF AfterCaptionThrows = "create"
                                            THEN NoResp
                                            ELSE ErrorResponse("captionImage")]
  /\ UNCHANGED <<noteVars, call, limiter, client, imageNotes, uploadedFiles>>

\* the row prisma.note.create is asked to insert
ImageNote(u) ==
  [id |-> u.file.name, chapterId |-> u.chapterId, kind |-> "image",
   title |-> Substring0(u.captionData.caption, TITLE_CHARS),
   imageUrl |-> u.file.name,
   imageCaption |-> u.captionData.caption,
   elaborationJson |-> [caption |-> u.captionData.caption,
                        description |-> u.captionData.description,
                        tags |-> u.captionData.tags]]

\* Steps 6-7: prisma.note.create and res.status(201); a TypeError of
\* captionData.caption.substring or a rejected create goes to the catch
\* block, which unlinks the file and passes the error on
CreateImageNote ==
  /\ upload.pc = "create"
  /\ \/ /\ IsString(upload.captionData.caption)
        /\ imageNotes' = imageNotes \cup {ImageNote(upload)}
        /\ upload' = [upload EXCEPT !.pc = "done",
             !.resp = [status |-> 201, note_id |-> upload.file.name,
                       image_url |-> upload.file.name,
                       image_caption |-> upload.captionData.caption,
                       tags |-> upload.captionData.tags,
                       description |-> upload.captionData.description]]
        /\ UNCHANGED uploadedFiles
     \/ /\ uploadedFiles' \in Unlink(uploadedFiles, upload.file)
        /\ upload' = [upload EXCEPT !.pc = "failed",
             !.unlink = Unlinked(uploadedFiles', upload.file),
             !.resp = ErrorResponse(
                        IF IsString(upload.captionData.caption)
                          THEN "prisma.note.create"
                          ELSE "captionData.caption.substring is not a function")]
        /\ UNCHANGED imageNotes
  /\ UNCHANGED <<noteVars, call, limiter, client>>

\* the response has been sent and the request is over
ForgetUpload ==
  /\ upload.pc \in {"answered", "done", "failed"}
  /\ upload' = [NoUpload EXCEPT !.seq = upload.seq]
  /\ UNCHANGED <<noteVars, call, limiter, client, imageNotes, uploadedFiles>>

\* a request carries no chapterId (""), that of a chapter or of none ("cx"),
\* and no file, a JPEG, a GIF or a JPEG over 10MB
NextImage ==
  \/ \E chapterId \in {"", "c1", "cx"},
        kind \in {"none", "jpeg", "gif", "oversized"} :
       ImageRequest(chapterId, kind)
  \/ CaptionImage
  \/ CreateImageNote
  \/ ForgetUpload

\* image uploads, served one after the other
SpecImage == Init /\ [][NextImage]_vars

(***************************************************************************)
(* The service functions, called directly (src/services/serper.js,         *)
(* src/services/openai.js).  A text is a sequence of words; a word that is *)
(* a piece of personal data stands for a match of the corresponding        *)
(* pattern of redactPII.                                                   *)
(***************************************************************************)
\* words the patterns of redactPII match
PiiWords ==
  {"a@b.c", "555-123-4567", "123-45-6789", "4111-1111-1111-1111",
   "10.0.0.1", "sk-abcdefghijklmnopqrstu"}

\* the replacement redactPII makes for one word
redactWord(w) ==
  CASE w = "a@b.c" -> "[EMAIL_REDACTED]"
    [] w = "555-123-4567" -> "[PHONE_REDACTED]"
    [] w = "123-45-6789" -> "[SSN_REDACTED]"
    [] w = "4111-1111-1111-1111" -> "[CARD_REDACTED]"
    [] w = "10.0.0.1" -> "[IP_REDACTED]"
    [] w = "sk-abcdefghijklmnopqrstu" -> "[API_KEY_REDACTED]"
    [] OTHER -> w

\* redactPII(text): non-strings and '' are returned as they are
redactPII(text) ==
  IF Falsy(text) \/ ~IsString(text)
    THEN text
    ELSE [i \in 1..Len(text) |-> redactWord(text[i])]

\* what the call of the generative model does: it answers, or the client
\* library throws an error with a status
OpenAiOk(answer) == [kind |-> "ok", answer |-> answer]

\* catch (error) of the OpenAI services: the error that is thrown on
OpenAiMessage(upstream) ==
  IF upstream.status = 401
    THEN "OpenAI API authentication failed: Invalid API key"
  ELSE IF upstream.status = 429 THEN "OpenAI API rate limit exceeded"
  ELSE "OpenAI API error"

\* the outcome of a service call: what it returned or the message of the
\* Error it threw, the upstream requests it made and the text it sent
Returned(value, requests, prompt) ==
  [threw |-> FALSE, value |-> value, message |-> "", requests |-> requests,
   prompt |-> prompt]
Thrown(message, requests, prompt) ==
  [threw |-> TRUE, value |-> UNDEFINED, message |-> message,
   requests |-> requests, prompt |-> prompt]

\* Array.prototype.map(...).join over the texts of a list
RECURSIVE Flatten(_)
Flatten(texts) ==
  IF texts = <<>> THEN <<>> ELSE Head(texts) \o Flatten(Tail(texts))

\* resultsText of rerankResults: title, url and (snippet || 'No snippet')
ResultsText(searchResults) ==
  Flatten([i \in 1..Len(searchResults) |->
     searchResults[i].title \o searchResults[i].url
       \o (IF searchResults[i].snippet = <<>> THEN <<"No snippet">>
           ELSE searchResults[i].snippet)])

\* sourcesContext of elaborateNote: title, (snippet || '') and url
SourcesContext(sources) ==
  Flatten([i \in 1..Len(sources) |->
     sources[i].title \o sources[i].snippet \o sources[i].url])

\* buildQueries(noteContent, numQueries) with the credential of the
\* environment and the outcome of the call of the generative model
buildQueries(apiKey, noteContent, numQueries, upstream) ==
  IF Falsy(apiKey)
    THEN Thrown("OPENAI_API_KEY is not set in environment variables", 0, <<>>)
  ELSE IF Falsy(noteContent) \/ ~IsString(noteContent)
    THEN Thrown("Note content must be a non-empty string", 0, <<>>)
  ELSE LET prompt == <<"Generate", "queries">> \o redactPII(noteContent)
       IN  IF upstream.kind = "ok"
             THEN Returned(upstream.answer, 1, prompt)
             ELSE Thrown(OpenAiMessage(upstream), 1, prompt)

\* rerankResults(noteContent, searchResults, topN) with the credential of
\* the environment and the outcome of the call of the generative model
rerankResultsOf(apiKey, noteContent, searchResults, topN, upstream) ==
  IF Falsy(apiKey)
    THEN Thrown("OPENAI_API_KEY is not set in environment variables", 0, <<>>)
  ELSE IF Falsy(noteContent) \/ ~IsString(noteContent)
    THEN Thrown("Note content must be a non-empty string", 0, <<>>)
  ELSE IF Len(searchResults) = 0
    THEN Returned(rerankResults(searchResults, topN, <<>>), 0, <<>>)
  ELSE LET prompt == <<"Note">> \o redactPII(noteContent)
                       \o <<"Search", "Results">> \o ResultsText(searchResults)
       IN  IF upstream.kind = "ok"
             THEN Returned(rerankResults(searchResults, topN, upstream.answer),
                           1, prompt)
             ELSE Thrown(OpenAiMessage(upstream), 1, prompt)

\* elaborateNote(noteContent, sources) with the credential of the
\* environment and the outcome of the call of the generative model
elaborateNote(apiKey, noteContent, sources, upstream) ==
  IF Falsy(apiKey)
    THEN Thrown("OPENAI_API_KEY is not set in environment variables", 0, <<>>)
  ELSE IF Falsy(noteContent) \/ ~IsString(noteContent)
    THEN Thrown("Note content must be a non-empty string", 0, <<>>)
  ELSE LET prompt == IF Len(sources) > 0
                       THEN <<"Note">> \o redactPII(noteContent)
                              \o <<"Sources">> \o SourcesContext(sources)
                       ELSE <<"Note">> \o redactPII(noteContent)
       IN  IF upstream.kind = "ok"
             THEN Returned(Trim(upstream.answer), 1, prompt)
             ELSE Thrown(OpenAiMessage(upstream), 1, prompt)

\* JS values in a number-valued place: numbers are counted in tenths
JsNumber(tenths) == [type |-> "number", nan |-> FALSE, tenths |-> tenths]

\* if (error.response): the Error thrown for a status
SerperStatusMessage(status) ==
  IF status = 401 THEN "Serper API authentication failed: Invalid API key"
  ELSE IF status = 429 THEN "Serper API rate limit exceeded"
  ELSE IF status = 400 THEN "Serper API bad request"
  ELSE "Serper API error"

\* typeof num !== 'number' || num < 1 || num > 100; x < k and x > k of JS
\* are false when x is NaN
NumInvalid(x) ==
  \/ x.type # "number"
  \/ (~x.nan /\ x.tenths < 10 * 1)
  \/ (~x.nan /\ x.tenths > 10 * 100)

\* searchWeb(q, num = 10, gl) with the credential of the environment and
\* the outcome of the one axios.post it may make
searchWeb(apiKey, q, numArg, transport) ==
  LET num == IF numArg.type = "undefined" THEN JsNumber(10 * 10) ELSE numArg IN
  IF Falsy(apiKey)
    THEN Thrown("SERPER_API_KEY is not set in environment variables", 0, <<>>)
  ELSE IF Falsy(q) \/ ~IsString(q) \/ Len(Trim(q)) = 0
    THEN Thrown("Search query (q) must be a non-empty string", 0, <<>>)
  ELSE IF NumInvalid(num)
    THEN Thrown("Number of results (num) must be between 1 and 100", 0, <<>>)
  ELSE IF transport.kind = "ok"
    THEN Returned([i \in 1..transport.organic |-> SearchResultAt(i)], 1, Trim(q))
  ELSE IF transport.kind = "response"
    THEN Thrown(SerperStatusMessage(transport.status), 1, Trim(q))
  ELSE IF transport.kind = "request"
    THEN Thrown("Serper API network error: No response received", 1, Trim(q))
  ELSE IF transport.namesKey
    THEN Thrown("error naming SERPER_API_KEY, thrown on as it is", 1, Trim(q))
  ELSE Thrown("Serper API request failed", 1, Trim(q))

(***************************************************************************)
(* Direct calls of the service functions and of the hash utilities, with   *)
(* the arguments and the environment a caller can present.                 *)
(***************************************************************************)
\* process.env.SERPER_API_KEY / process.env.OPENAI_API_KEY
ApiKeys == {UNDEFINED, <<>>, <<"key">>}

\* the num argument: undefined, a string, NaN, or a number
NumArgs ==
  { [type |-> "undefined", nan |-> FALSE, tenths |-> 0],
    [type |-> "string", nan |-> FALSE, tenths |-> 0],
    [type |-> "number", nan |-> TRUE, tenths |-> 0] }
    \cup { JsNumber(t) : t \in {0, 5, 10, 15, 100, 1000, 1005, 1010} }

\* what axios.post does: a response with data, an error with a response
\* (a status outside 2xx), an error with a request and no response (nothing
\* came back, timeout included), or any other error
Transports ==
  { [kind |-> "ok", status |-> 200, organic |-> k, namesKey |-> FALSE] :
      k \in 0..MaxResults }
    \cup { [kind |-> "response", status |-> st, organic |-> 0,
            namesKey |-> FALSE] : st \in {400, 401, 403, 404, 429, 500, 503} }
    \cup { [kind |-> "request", status |-> 0, organic |-> 0, namesKey |-> FALSE] }
    \cup { [kind |-> "other", status |-> 0, organic |-> 0, namesKey |-> k] :
            k \in BOOLEAN }

NoteContents == {NULL, NotAString, <<>>, <<"a">>, <<"mail", "a@b.c">>}

CleanResult == [title |-> <<"t">>, url |-> <<"u">>, snippet |-> <<>>]
PiiResult ==
  [title |-> <<"call", "555-123-4567">>, url |-> <<"v">>,
   snippet |-> <<"write", "a@b.c">>]

ResultLists == { <<>>, <<CleanResult>>, <<PiiResult>>, <<CleanResult, PiiResult>> }

OpenAiFailures == { [kind |-> "error", status |-> st] : st \in {401, 429, 500} }

\* the variables of the route handlers; a service function is called while
\* no call of one is under observation (call = NoCall)
handlerVars == <<noteVars, imageVars, limiter, client>>

SearchWebCall ==
  /\ call = NoCall
  /\ \E apiKey \in ApiKeys,
        q \in {UNDEFINED, NULL, NotAString, <<>>, <<" ">>, <<"q">>, <<" ", "q">>},
        num \in NumArgs,
        transport \in Transports :
       call' = [fn |-> "searchWeb", apiKey |-> apiKey, q |-> q, num |-> num,
                transport |-> transport,
                out |-> searchWeb(apiKey, q, num, transport)]
  /\ UNCHANGED handlerVars

BuildQueriesCall ==
  /\ call = NoCall
  /\ \E apiKey \in ApiKeys, noteContent \in NoteContents,
        upstream \in { OpenAiOk(a) : a \in QueryOutcomes } \cup OpenAiFailures :
       call' = [fn |-> "buildQueries", apiKey |-> apiKey,
                noteContent |-> noteContent, upstream |-> upstream,
                out |-> buildQueries(apiKey, noteContent, 1, upstream)]
  /\ UNCHANGED handlerVars

RerankResultsCall ==
  /\ call = NoCall
  /\ \E apiKey \in ApiKeys, noteContent \in NoteContents,
        searchResults \in ResultLists, topN \in 0..MaxRankLen :
       \E upstream \in { OpenAiOk(a) : a \in RankOutcomes(Len(searchResults)) }
                         \cup OpenAiFailures :
         call' = [fn |-> "rerankResults", apiKey |-> apiKey,
                  noteContent |-> noteContent, searchResults |-> searchResults,
                  topN |-> topN, upstream |-> upstream,
                  out |-> rerankResultsOf(apiKey, noteContent, searchResults,
                                          topN, upstream)]
  /\ UNCHANGED handlerVars

ElaborateNoteCall ==
  /\ call = NoCall
  /\ \E apiKey \in ApiKeys, noteContent \in NoteContents,
        sources \in ResultLists,
        upstream \in { OpenAiOk(a) : a \in {<<"text">>, <<" ", "text", " ">>} }
                       \cup OpenAiFailures :
       call' = [fn |-> "elaborateNote", apiKey |-> apiKey,
                noteContent |-> noteContent, sources |-> sources,
                upstream |-> upstream,
                out |-> elaborateNote(apiKey, noteContent, sources, upstream)]
  /\ UNCHANGED handlerVars

HashInputs ==
  {NULL, UNDEFINED, NotAString, <<>>, <<" ">>, <<" ", " ">>, <<"a">>,
   <<" ", "a">>, <<"a", " ">>, <<"a", " ", "b">>, <<"b">>}

\* two calls of generateHash, side by side
GenerateHashCall ==
  /\ call = NoCall
  /\ \E c1 \in HashInputs, c2 \in HashInputs :
       call' = [fn |-> "generateHash", c1 |-> c1, c2 |-> c2,
                out1 |-> generateHash(c1), out2 |-> generateHash(c2)]
  /\ UNCHANGED handlerVars

\* the instant of a direct call of isCacheValid, milliseconds
CallInstant == DateOf(2 * CACHE_TTL_HOURS)

\* timestamps around the instant of the call and around the TTL boundary
CachedInstants(ttlHours) ==
  {NoTime}
    \cup { CallInstant - DateOf(ttlHours) + d : d \in {0 - 1, 0, 1} }
    \cup { CallInstant + d : d \in {0 - MS_PER_HOUR, 0 - 1, 0, 1, MS_PER_HOUR} }

IsCacheValidCall ==
  /\ call = NoCall
  /\ \E ttlHours \in {1, CACHE_TTL_HOURS} :
       \E cachedAt \in CachedInstants(ttlHours) :
         call' = [fn |-> "isCacheValid", cachedAt |-> cachedAt,
                  ttlHours |-> ttlHours, nowAt |-> CallInstant,
                  out |-> isCacheValid(cachedAt, ttlHours, CallInstant)]
  /\ UNCHANGED handlerVars

NextServices ==
  \/ SearchWebCall
  \/ BuildQueriesCall
  \/ RerankResultsCall
  \/ ElaborateNoteCall
  \/ GenerateHashCall
  \/ IsCacheValidCall

\* the service functions and the hash utilities called on their own
SpecServices == Init /\ [][NextServices]_vars

(***************************************************************************)
(* The rate limiters in front of POST /notes/:id/elaborate and             *)
(* POST /notes/image (src/middleware/rateLimiter.js, server.js).           *)
(***************************************************************************)
\* express-rate-limit: the hit is counted, and the request is answered 429
\* when the count has passed max
OverLimit(hits, max) == hits > max

\* one request on its way through ipRateLimiter, userRateLimiter and
\* aiOperationRateLimiter to its handler; userId is
\* req.body?.userId || req.query?.userId as the limiters see it: the body of
\* the multipart request to /image has not been parsed when they run
LimitedRequest(route, ip, bodyUserId, queryUserId) ==
  LET userId == IF route = "image" THEN queryUserId
                ELSE Or(bodyUserId, queryUserId)
      ipHits == limiter.ip[ip] + 1
      userHits == limiter.user[UserKey(userId, ip)] + 1
      aiHits == limiter.ai[AiKey(userId, ip)] + 1
      counted == [limiter EXCEPT !.ip[ip] = ipHits]
      countedUser == [counted EXCEPT !.user[UserKey(userId, ip)] = userHits]
      countedAi == [countedUser EXCEPT !.ai[AiKey(userId, ip)] = aiHits]
  IN  /\ limiter.ip[ip] < MaxRequests
      /\ limiter' =
           IF OverLimit(ipHits, IP_MAX)
             THEN [counted EXCEPT !.last = [status |-> 429, by |-> "ip"]]
           ELSE IF OverLimit(userHits, USER_MAX)
             THEN [countedUser EXCEPT !.last = [status |-> 429, by |-> "user"]]
           ELSE IF OverLimit(aiHits, AI_MAX)
             THEN [countedAi EXCEPT !.last = [status |-> 429, by |-> "ai_operation"]]
           ELSE [countedAi EXCEPT !.reached[ip] = @ + 1,
                                  !.last = [status |-> 0, by |-> route]]
      /\ UNCHANGED <<noteVars, imageVars, call, client>>

\* windowMs has passed: the counters start again
WindowEnds ==
  /\ limiter.ip # NoLimiter.ip
  /\ limiter' = [NoLimiter EXCEPT !.last = [status |-> 0, by |-> "windowMs"]]
  /\ UNCHANGED <<noteVars, imageVars, call, client>>

NextLimiter ==
  \/ \E route \in {"elaborate", "image"}, ip \in ClientIps, bodyUserId \in UserIds,
        queryUserId \in UserIds :
       LimitedRequest(route, ip, bodyUserId, queryUserId)
  \/ WindowEnds

\* requests to the two AI routes within the windows of the rate limiters
SpecLimiter == Init /\ [][NextLimiter]_vars

(***************************************************************************)
(* The browser client (public/app.js): autosave and the offline queue.     *)
(***************************************************************************)
\* setSaveStatus(status): state.hasUnsavedChanges = (status === 'unsaved')
setSaveStatus(c, status) ==
  [c EXCEPT !.hasUnsavedChanges = (status = "unsaved")]

\* the members of a Set, which is kept in insertion order
Members(set) == { set[i] : i \in 1..Len(set) }

\* Set.prototype.delete
RECURSIVE SetDelete(_, _)
SetDelete(set, x) ==
  IF set = <<>> THEN <<>>
  ELSE IF Head(set) = x THEN SetDelete(Tail(set), x)
  ELSE <<Head(set)>> \o SetDelete(Tail(set), x)

\* queueOfflineSave(noteId); an id added while the online handler iterates
\* over the queue is visited by it
queueOfflineSave(c, noteId) ==
  [c EXCEPT !.offlineQueue = IF noteId \in Members(@) THEN @
                             ELSE Append(@, noteId),
            !.sync.todo = IF c.sync.pc # "idle"
                               /\ noteId \notin Members(c.offlineQueue)
                            THEN Append(@, noteId) ELSE @]

\* saveCurrentNote() up to its await: nothing without an open note; the
\* status 'saving'; then apiCall, which throws at once when the browser is
\* offline (status 'offline', the note is queued) and starts the PATCH
\* otherwise
saveCurrentNote(c, fromSync) ==
  IF c.currentNote = "none" THEN c
  ELSE IF ~c.onLine
    THEN queueOfflineSave(setSaveStatus(setSaveStatus(c, "saving"), "offline"),
                          c.currentNote)
  ELSE [setSaveStatus(c, "saving") EXCEPT
          !.saves = @ \cup {[note |-> c.currentNote, content |-> c.editor,
                             sync |-> fromSync]},
          !.requested = c.editor]

\* the PATCH of a save can be started: no note is open (nothing is sent),
\* the browser is offline (nothing is sent), or a request slot is free
CanSave(c) ==
  c.currentNote = "none" \/ ~c.onLine \/ Cardinality(c.saves) < MaxSaves

\* selectNote(noteId): the note is fetched and shown in the editor
SelectNote(n) ==
  /\ client.onLine /\ ~client.focus
  /\ client.currentNote # n
  /\ client' = [client EXCEPT !.currentNote = n, !.editor = client.server[n],
                              !.requested = client.server[n]]
  /\ UNCHANGED <<noteVars, imageVars, call, limiter>>

\* 'input' on a field of the editor
Input(text) ==
  /\ client.currentNote # "none"
  /\ client.inputs < MaxInputs
  /\ text # client.editor
  /\ client' = [setSaveStatus(client, "unsaved") EXCEPT
                  !.editor = text, !.focus = TRUE, !.saveTimeout = TRUE,
                  !.inputs = @ + 1]
  /\ UNCHANGED <<noteVars, imageVars, call, limiter>>

\* Ctrl/Cmd+S
KeydownSave ==
  /\ client.currentNote # "none"
  /\ client.onLine /\ Cardinality(client.saves) < MaxSaves
  /\ client' = saveCurrentNote(client, FALSE)
  /\ UNCHANGED <<noteVars, imageVars, call, limiter>>

\* the 1500 ms of the debounce have passed
SaveTimeoutFires ==
  /\ client.saveTimeout
  /\ CanSave(client)
  /\ client' = saveCurrentNote([client EXCEPT !.saveTimeout = FALSE], FALSE)
  /\ UNCHANGED <<noteVars, imageVars, call, limiter>>

\* 'blur' on a field of the editor
Blur ==
  /\ client.focus
  /\ CanSave(client)
  /\ LET c == [client EXCEPT !.focus = FALSE, !.saveTimeout = FALSE]
     IN  client' = IF c.currentNote # "none" /\ c.hasUnsavedChanges
                     THEN saveCurrentNote(c, FALSE)
                     ELSE c
  /\ UNCHANGED <<noteVars, imageVars, call, limiter>>

\* "for (const noteId of offlineQueue)" from the entry it has reached up to
\* its next await of a PATCH or to its end: a note that is not open is passed
\* over; the open note is saved and, the save having returned, deleted from
\* the queue (offline, saveCurrentNote returns at once)
RECURSIVE SyncLoop(_)
SyncLoop(c) ==
  IF c.sync.todo = <<>> THEN [c EXCEPT !.sync.pc = "idle"]
  ELSE LET n == Head(c.sync.todo)
           c1 == [c EXCEPT !.sync.todo = Tail(@)]
       IN  IF c1.currentNote # n THEN SyncLoop(c1)
           ELSE IF ~c1.onLine
             THEN SyncLoop([saveCurrentNote(c1, TRUE) EXCEPT
                              !.offlineQueue = SetDelete(@, n),
                              !.sync.outcome = "offline"])
           ELSE [saveCurrentNote(c1, TRUE) EXCEPT !.sync.pc = "awaiting"]

\* the PATCH of a save comes back, and saveCurrentNote runs to its end; a
\* save awaited by the online handler is followed by offlineQueue.delete
\* and the rest of the loop
SaveCompletes(sv, outcome) ==
  /\ sv \in client.saves
  /\ outcome = "ok" => client.onLine
  /\ LET c0 == [client EXCEPT !.saves = @ \ {sv}]
         c1 == IF outcome = "ok"
                 THEN [setSaveStatus(c0, "saved") EXCEPT
                         !.server[sv.note] = sv.content]
               ELSE IF outcome = "network" /\ ~c0.onLine
                 THEN setSaveStatus(c0, "offline")
               ELSE setSaveStatus(c0, "error")
         c2 == IF outcome # "ok" /\ ~c1.onLine
                 THEN queueOfflineSave(c1, sv.note) ELSE c1
     IN  client' = IF sv.sync
                     THEN SyncLoop([c2 EXCEPT
                                      !.offlineQueue = SetDelete(@, sv.note),
                                      !.sync.outcome = outcome])
                     ELSE c2
  /\ UNCHANGED <<noteVars, imageVars, call, limiter>>

\* 'offline'
Offline ==
  /\ client.onLine
  /\ client' = setSaveStatus([client EXCEPT !.onLine = FALSE], "offline")
  /\ UNCHANGED <<noteVars, imageVars, call, limiter>>

\* 'online': the handler goes through the queue
Online ==
  /\ ~client.onLine
  /\ client.sync.pc = "idle"
  /\ Cardinality(client.saves) < MaxSaves
  /\ client' = SyncLoop([client EXCEPT !.onLine = TRUE,
                           !.sync.todo = client.offlineQueue])
  /\ UNCHANGED <<noteVars, imageVars, call, limiter>>

\* the client with a connection that stays up and a server that accepts
\* every save
NextAutosave ==
  \/ \E n \in ClientNotes : SelectNote(n)
  \/ \E text \in Typed : Input(text)
  \/ KeydownSave
  \/ SaveTimeoutFires
  \/ Blur
  \/ \E sv \in client.saves : SaveCompletes(sv, "ok")

\* timers fire and requests come back
SpecAutosave ==
  /\ Init /\ [][NextAutosave]_vars
  /\ WF_vars(SaveTimeoutFires)
  /\ WF_vars(\E sv \in client.saves : SaveCompletes(sv, "ok"))

\* the client with a connection that comes and goes and saves that fail
NextClient ==
  \/ \E n \in ClientNotes : SelectNote(n)
  \/ \E text \in Typed : Input(text)
  \/ KeydownSave
  \/ SaveTimeoutFires
  \/ Blur
  \* a PATCH ends: the server stored the note, the server answered with an
  \* error status, or fetch rejected (no connection)
  \/ \E sv \in client.saves, outcome \in {"ok", "error", "network"} :
       SaveCompletes(sv, outcome)
  \/ Offline
  \/ Online

SpecClient == Init /\ [][NextClient]_vars

(***************************************************************************)
(* Vocabulary of the properties.                                           *)
(***************************************************************************)
\* request r holds a 200 response served from the cache
Cached(r) == resp[r].status = 200 /\ resp[r].metadata.cached

\* request r holds a 200 response of a fresh elaboration
Fresh(r) == resp[r].status = 200 /\ ~resp[r].metadata.cached

\* the body is null, empty or consists of blanks only
Blank(bodyMd) == bodyMd = NULL \/ \A i \in 1..Len(bodyMd) : bodyMd[i] = " "

\* the text s without its leading and trailing blanks is the text t
TrimsTo(s, t) ==
  \E i \in 0..Len(s), j \in 0..Len(s) :
    /\ i + j <= Len(s)
    /\ \A k \in 1..i : s[k] = " "
    /\ \A k \in (Len(s) - j + 1)..Len(s) : s[k] = " "
    /\ t = SubSeq(s, i + 1, Len(s) - j)
    /\ (t # <<>> => t[1] # " " /\ t[Len(t)] # " ")

\* the Reference rows of note id are exactly the list refs
RowsAre(rows, refs) ==
  /\ Cardinality(rows) = Len(refs)
  /\ \A i \in 1..Len(refs) : \E x \in rows : RefView(x) = refs[i]

\* C1: a request answered from the cache has invoked no stage of the
\* pipeline, and no step taken while its cached response is held changes a
\* note row or a Reference row.
C1_CacheHitNoSideEffects ==
  /\ [](\A r \in Reqs : Cached(r) => log[r] = <<>>)
  /\ [][\A r \in Reqs :
          (resp'[r].status = 200 /\ resp'[r].metadata.cached)
            => (notes' = notes /\ refRows' = refRows /\ log'[r] = <<>>)]_vars

\* a cache hit on a note that has Reference rows
C1_Witness ==
  \E r \in Reqs : Cached(r) /\ refRows[args[r].id] # {} /\ pc[r] = "answered"

\* C2: a request for a note with a non-blank body is answered from the
\* cache exactly when the stored blob is an elaboration record, force is
\* unset, the hashed text of the record is the trimmed current body and the
\* note was updated less than 24 hours ago; otherwise the pipeline starts.
C2_CacheHitIff ==
  [][\A r \in Reqs :
       (pc[r] = "new" /\ pc'[r] # "new" /\ args'[r].id \in NoteIds
          /\ ~Blank(notes[args'[r].id].bodyMd))
       => LET n == notes[args'[r].id]
              hit == /\ n.elaborationJson.kind = "elaboration"
                     /\ ~args'[r].force
                     /\ n.elaborationJson.contentHash # <<>>
                     /\ TrimsTo(n.bodyMd, n.elaborationJson.contentHash[2])
                     /\ now - n.updatedAt < 24
          IN  /\ hit <=> (resp'[r].status = 200 /\ resp'[r].metadata.cached)
              /\ ~hit => (pc'[r] = "buildQueries" /\ resp'[r] = NoResp)]_vars

\* a non-forced request misses although the stored hash is the hash of the
\* current body: the note was updated 24 hours ago or more
C2_Witness ==
  \E r \in Reqs :
    /\ pc[r] = "buildQueries" /\ ~args[r].force /\ log[r] = <<>>
    /\ notes[args[r].id].elaborationJson.kind = "elaboration"
    /\ notes[args[r].id].elaborationJson.contentHash
         = generateHash(notes[args[r].id].bodyMd)
    /\ now - notes[args[r].id].updatedAt >= 24

\* the stages of one request, in the order the handler awaits them
StageRank(stage) ==
  CASE stage = "buildQueries" -> 1
    [] stage = "searchWeb" -> 2
    [] stage = "rerankResults" -> 3
    [] stage = "elaborateNote" -> 4
    [] stage = "deleteMany" -> 5
    [] stage = "createMany" -> 6
    [] stage = "noteUpdate" -> 7

Stages(r) == { log[r][i] : i \in 1..Len(log[r]) }

\* the pipeline run whose generated text a 200 response carries
RunOf(response) == response.sections[Len(response.sections)].content[4]

\* C3: while the fresh response of request p is held, no pipeline run has
\* started since, and the store still carries its elaboration (same sections,
\* hashed text = trimmed body, updated less than 24 hours ago), a non-forced
\* request for that note is answered from the cache with exactly the sections
\* and references of that response.
C3_RoundTrip ==
  [][\A p \in Reqs, r \in Reqs :
       (/\ resp[p].status = 200 /\ ~resp[p].metadata.cached
        /\ runs = RunOf(resp[p])
        /\ pc[r] = "new" /\ pc'[r] # "new"
        /\ args'[r] = [id |-> args[p].id, force |-> FALSE]
        /\ notes[args[p].id].elaborationJson.kind = "elaboration"
        /\ notes[args[p].id].elaborationJson.sections = resp[p].sections
        /\ TrimsTo(notes[args[p].id].bodyMd,
                   notes[args[p].id].elaborationJson.contentHash[2])
        /\ now - notes[args[p].id].updatedAt < 24)
       => (/\ resp'[r].status = 200 /\ resp'[r].metadata.cached
           /\ resp'[r].sections = resp[p].sections
           /\ resp'[r].references = resp[p].references)]_vars

\* C4: a successful request with force:true is never answered from the
\* cache, has invoked the Query Builder, the Search Client and the Citation
\* Generator, and leaves as Reference rows exactly the references it returns.
C4_ForceOverwrites ==
  [][\A r \in Reqs :
       (args'[r].force /\ resp[r] = NoResp /\ resp'[r].status = 200)
       => (/\ ~resp'[r].metadata.cached
           /\ \A stage \in {"buildQueries", "searchWeb", "elaborateNote"} :
                \E i \in 1..Len(log'[r]) : log'[r][i] = stage
           /\ RowsAre(refRows'[args'[r].id], resp'[r].references))]_vars

\* C5: when a fresh elaboration is answered with 200, the Reference rows of
\* the note are exactly the references of the response, ranked 1..k in the
\* order returned, and the references of the stored blob are the same list.
C5_RowsAreResponse ==
  [][\A r \in Reqs :
       (resp[r] = NoResp /\ resp'[r].status = 200 /\ ~resp'[r].metadata.cached)
       => (/\ \A i \in 1..Len(resp'[r].references) :
                resp'[r].references[i].rank = i
           /\ notes'[args[r].id].elaborationJson.references
                = resp'[r].references
           /\ Cardinality(refRows'[args[r].id]) = Len(resp'[r].references)
           /\ \A x \in refRows'[args[r].id] :
                x.rank \in 1..Len(resp'[r].references)
                  /\ RefView(x) = resp'[r].references[x.rank])]_vars

\* C6: when a request fails inside the pipeline, the Reference rows of the
\* note are the ones the request loaded and the stored blob is unchanged.
C6_FailureLeavesStore ==
  [][\A r \in Reqs :
       (pc[r] \in InPipeline /\ pc'[r] = "failed")
       => (/\ notes'[args[r].id].elaborationJson
                = notes[args[r].id].elaborationJson
           /\ RowsAre(refRows'[args[r].id], loc[r].note.references)
           /\ RowsAre(refRows[args[r].id], loc[r].note.references))]_vars

\* C7: after the Search Client has returned zero results the handler goes
\* on to the Citation Generator; a request that answers 200 on that path has
\* invoked Query Builder, Search Client, Citation Generator and the note
\* update once each and no Ranker, returns references = [] and the single
\* section "elaboration", and the stored record has references = [] and
\* tokens.total = 0.
C7_NoResultsSucceeds ==
  [][\A r \in Reqs :
       /\ (pc[r] = "searchWeb" /\ pc'[r] \in InPipeline \ {"searchWeb"}
             /\ Len(loc'[r].searchResults) = 0)
          => (pc'[r] = "elaborateNoResults" /\ resp'[r] = NoResp)
       /\ (pc[r] \in InPipeline /\ pc[r] # "searchWeb" /\ pc[r] # "buildQueries"
             /\ Len(loc[r].searchResults) = 0 /\ pc'[r] = "done")
          => (/\ resp'[r].status = 200
              /\ resp'[r].references = <<>>
              /\ Len(resp'[r].sections) = 1
              /\ resp'[r].sections[1].type = "elaboration"
              /\ resp'[r].metadata.tokens.total = 0
              /\ log'[r] = <<"buildQueries", "searchWeb", "elaborateNote",
                             "noteUpdate">>
              /\ notes'[args[r].id].elaborationJson.references = <<>>
              /\ notes'[args[r].id].elaborationJson.tokens.total = 0
              /\ notes'[args[r].id].elaborationJson.sections
                   = resp'[r].sections)]_vars

\* a 200 response without references, one section, after a search
C7_Witness ==
  \E r \in Reqs :
    /\ pc[r] = "done" /\ Fresh(r) /\ resp[r].references = <<>>
    /\ Len(resp[r].sections) = 1 /\ "searchWeb" \in Stages(r)
    /\ "rerankResults" \notin Stages(r)

\* C8: a request for an id without note is answered 404 and a request for
\* a note with a blank body 400, whatever force is and whatever is stored; the
\* request ends there, has invoked no stage, and no note row or Reference
\* row changes while its response is held.
C8_PreconditionFailures ==
  /\ [](\A r \in Reqs : resp[r].status \in {400, 404} => log[r] = <<>>)
  /\ [][\A r \in Reqs :
          /\ (pc[r] = "new" /\ pc'[r] # "new")
             => (/\ args'[r].id \notin NoteIds => resp'[r].status = 404
                 /\ (args'[r].id \in NoteIds
                       /\ Blank(notes[args'[r].id].bodyMd))
                    => resp'[r].status = 400)
          /\ resp'[r].status \in {400, 404}
             => (/\ pc'[r] \in {"answered", "new"}
                 /\ "message" \in DOMAIN resp'[r].error
                 /\ notes' = notes /\ refRows' = refRows
                 /\ log'[r] = <<>>)]_vars

\* a forced request for a note with a stored elaboration and a blank,
\* non-null body is answered 400
C8_Witness ==
  \E r \in Reqs :
    /\ resp[r].status = 400 /\ args[r].force
    /\ notes[args[r].id].elaborationJson.kind = "elaboration"
    /\ notes[args[r].id].bodyMd # NULL

\* C9: the stages a request has invoked are in the order Query Builder,
\* Search Client, Ranker, Citation Generator, delete, insert, update, each at
\* most once; a failed request holds a 5xx response of shape {error:{message}}
\* and invokes nothing more; a fresh 200 response comes after the Citation
\* Generator and the note update.
C9_SequentialNoRetry ==
  /\ [](\A r \in Reqs :
          /\ \A i \in 1..Len(log[r]), j \in 1..Len(log[r]) :
               i < j => StageRank(log[r][i]) < StageRank(log[r][j])
          /\ pc[r] = "failed"
             => (/\ resp[r].status \in 500..599
                 /\ DOMAIN resp[r] = {"status", "error"}
                 /\ "message" \in DOMAIN resp[r].error
                 /\ log[r] # <<>>)
          /\ (resp[r].status = 200 /\ ~resp[r].metadata.cached)
             => (/\ pc[r] = "done"
                 /\ {"buildQueries", "searchWeb", "elaborateNote",
                     "noteUpdate"} \subseteq Stages(r)))
  /\ [][\A r \in Reqs :
          /\ pc[r] = "failed" => (log'[r] = log[r] \/ pc'[r] = "new")
          /\ (pc[r] \in InPipeline /\ pc'[r] # pc[r])
             => log'[r] = Append(log[r], StageOf(pc[r]))
          /\ (pc'[r] = "failed" /\ pc[r] # "failed")
             => resp'[r].status # 200]_vars

\* a request fails in the persistence step, after four stages succeeded
C9_Witness ==
  \E r \in Reqs :
    /\ pc[r] = "failed" /\ Len(log[r]) >= 5
    /\ notes[args[r].id].elaborationJson.kind = "elaboration"

\* C10: when two non-forced requests that both found sources hold their
\* fresh responses and no request is in the pipeline, the stored blob and the
\* Reference rows are those of one of the two responses.
C10_LastWriterWins ==
  \A p \in Reqs, r \in Reqs :
    (/\ p # r /\ InFlight = {}
     /\ Fresh(p) /\ Fresh(r)
     /\ ~args[p].force /\ ~args[r].force /\ args[p].id = args[r].id
     /\ resp[p].references # <<>> /\ resp[r].references # <<>>)
    => \E w \in {p, r} :
         /\ notes[args[w].id].elaborationJson.sections = resp[w].sections
         /\ notes[args[w].id].elaborationJson.references = resp[w].references
         /\ RowsAre(refRows[args[w].id], resp[w].references)

\* C11: whenever no elaborate request is inside its persistence step (Step 6
\* of the handler: deleteMany, createMany, noteUpdate), the
\* Reference rows of every note carry pairwise distinct ranks, and these
\* ranks are exactly 1..k for the k rows of the note.
C11_RanksAreOneToK ==
  (\A r \in Reqs : pc[r] \notin {"deleteMany", "createMany", "noteUpdate",
                                  "noteUpdateNoResults"})
  => \A id \in NoteIds :
       /\ \A x \in refRows[id], y \in refRows[id] : x.rank = y.rank => x = y
       /\ { x.rank : x \in refRows[id] } = 1..Cardinality(refRows[id])

C13_LifetimeFromPersistence ==
  [][\A r \in Reqs :
       (pc[r] = "new" /\ resp'[r].status = 200 /\ resp'[r].metadata.cached)
       => (/\ persistedAt[args'[r].id] # NoTime
           /\ now - persistedAt[args'[r].id] < 24)]_vars

\* C14: the text a call of buildQueries, rerankResults or elaborateNote
\* sends to the generative model holds no piece of personal data: the note
\* body and the titles and snippets of the search results are embedded in
\* their redacted form.
C14_PromptsRedacted ==
  call.fn \in {"buildQueries", "rerankResults", "elaborateNote"}
  => \A i \in 1..Len(call.out.prompt) : call.out.prompt[i] \notin PiiWords

\* C15: searchWeb makes a network request only with a configured
\* credential, a query that is a string with a non-blank character and a
\* maxResults that is an integer in 1..100 (or left to its default); for
\* every other input it throws a validation error and makes no request.
C15_SearchValidation ==
  call.fn = "searchWeb"
  => LET configured == call.apiKey \notin {UNDEFINED, NULL, <<>>}
         queryOk == /\ call.q \notin {UNDEFINED, NULL, NotAString}
                    /\ \E i \in 1..Len(call.q) : call.q[i] # " "
         numOk == \/ call.num.type = "undefined"
                  \/ /\ call.num.type = "number" /\ ~call.num.nan
                     /\ call.num.tenths % 10 = 0
                     /\ call.num.tenths \in 10..1000
     IN  IF configured /\ queryOk /\ numOk
           THEN call.out.requests = 1
           ELSE /\ call.out.requests = 0
                /\ call.out.threw
                /\ call.out.message \in
                     {"SERPER_API_KEY is not set in environment variables",
                      "Search query (q) must be a non-empty string",
                      "Number of results (num) must be between 1 and 100"}

\* C16: a call of searchWeb makes at most one request, and when the request
\* fails the Error it throws tells the kind of failure: 401 authentication,
\* 429 rate limit, every other 4xx bad request, every 5xx provider error, no
\* response network error, anything else the catch-all (an error that was
\* thrown on unwrapped counted with it).
C16_FailureTaxonomy ==
  call.fn = "searchWeb"
  => /\ call.out.requests <= 1
     /\ (call.out.requests = 1 /\ call.transport.kind # "ok")
        => /\ call.out.threw
           /\ call.out.message =
                (IF call.transport.kind = "response"
                   THEN IF call.transport.status = 401
                          THEN "Serper API authentication failed: Invalid API key"
                        ELSE IF call.transport.status = 429
                          THEN "Serper API rate limit exceeded"
                        ELSE IF call.transport.status \in 400..499
                          THEN "Serper API bad request"
                        ELSE "Serper API error"
                 ELSE IF call.transport.kind = "request"
                   THEN "Serper API network error: No response received"
                 ELSE IF call.transport.namesKey
                   THEN "error naming SERPER_API_KEY, thrown on as it is"
                 ELSE "Serper API request failed")

\* C17: rerankResults called with an empty list of results returns
\* {rankedIndices: [], reasoning: "No results to rank"} and calls no model,
\* whatever the note content, topN and the configured credential are.
C17_EmptyShortCircuit ==
  (call.fn = "rerankResults" /\ call.searchResults = <<>>)
  => /\ call.out.requests = 0
     /\ ~call.out.threw
     /\ call.out.value =
          [rankedIndices |-> <<>>, reasoning |-> "No results to rank"]

\* C18: two texts with the same trimmed content have the same hash, two
\* texts with different trimmed contents have different hashes, and null,
\* undefined, a non-string and every text whose trimmed content is empty have
\* the hash "".
C18_HashOfTrimmed ==
  call.fn = "generateHash"
  => LET text(c) == c \notin {NULL, UNDEFINED, NotAString}
         blank(c) == ~text(c) \/ \A i \in 1..Len(c) : c[i] = " "
         sameTrim(c, d) ==
           \E i \in 1..(Len(c) + 1), j \in 0..Len(c) :
             TrimsTo(c, SubSeq(c, i, j)) /\ TrimsTo(d, SubSeq(c, i, j))
     IN  /\ blank(call.c1) => call.out1 = <<>>
         /\ blank(call.c2) => call.out2 = <<>>
         /\ (text(call.c1) /\ text(call.c2))
            => (sameTrim(call.c1, call.c2) <=> call.out1 = call.out2)

\* C19: isCacheValid is false for a null or undefined timestamp, and for
\* every other timestamp t it is true exactly when now - t is less than
\* ttlHours * 3600000 milliseconds.
C19_CacheValidBoundary ==
  call.fn = "isCacheValid"
  => IF call.cachedAt = NoTime
       THEN call.out = FALSE
       ELSE call.out <=> (call.nowAt - call.cachedAt < call.ttlHours * 3600000)

\* a timestamp one millisecond younger than 24 hours is valid
C19_Witness ==
  /\ call.fn = "isCacheValid" /\ call.ttlHours = 24
  /\ call.nowAt - call.cachedAt = 24 * 3600000 - 1
  /\ call.out = TRUE

\* C20: once POST /notes/image has a valid file and an existing chapter, a
\* throwing captionImage does not end the request; whether captionImage
\* returned or threw, the request creates the note and answers 201 (unless
\* the insert itself is rejected), and after a throw the note and the response
\* carry the caption 'Image uploaded', an empty description and no tags.
C20_CaptionFailureTolerated ==
  [][/\ (upload.pc = "captionImage" /\ upload'.pc # "captionImage")
        => (upload'.pc = "create" /\ upload'.resp = NoResp)
     /\ (/\ upload.pc = "create" /\ upload'.pc # "create"
         /\ ~(upload'.resp.status = 500
                /\ upload'.resp.error.message = "prisma.note.create"))
        => /\ upload'.resp.status = 201
           /\ \E n \in imageNotes' \ imageNotes :
                /\ n.chapterId = upload.chapterId /\ n.kind = "image"
                /\ upload.captionThrew
                   => /\ n.imageCaption = <<"Image", "uploaded">>
                      /\ n.elaborationJson.description = <<>>
                      /\ n.elaborationJson.tags = <<>>
           /\ upload.captionThrew
              => /\ upload'.resp.image_caption = <<"Image", "uploaded">>
                 /\ upload'.resp.description = <<>>
                 /\ upload'.resp.tags = <<>>]_vars

\* C21: when a request to POST /notes/image has ended and the file multer
\* wrote for it is still on disk although no unlink of it failed, the request
\* was answered 201 and a note refers to the file; after every error response
\* the file is gone.
C21_ErrorRemovesUpload ==
  (/\ upload.pc \in {"answered", "done", "failed"}
   /\ upload.file # NoFile
   /\ upload.file \in uploadedFiles
   /\ upload.unlink # "failed")
  => /\ upload.resp.status = 201
     /\ \E n \in imageNotes : n.imageUrl = upload.file.name

\* C22: within one window at most 30 requests from one IP address reach the
\* handlers of POST /notes/:id/elaborate and POST /notes/image, whatever
\* userId values the requests carry in the body or the query string.
C22_ThirtyPerAddress ==
  \A ip \in ClientIps : limiter.reached[ip] <= 30

\* C23: with the connection up and a server that accepts every save,
\* whenever a note is open and the field has lost focus, the content the
\* editor holds is eventually the content of a save request sent for the
\* note, edits typed while an earlier save was in flight included.
C23_AutosaveLosesNoEdit ==
  []((client.currentNote # "none" /\ ~client.focus)
       => <>(client.requested = client.editor))

\* C24: a note id leaves the offline queue only when the save the online
\* handler made for it has succeeded.
C24_DequeuedOnlyWhenSaved ==
  [][\A n \in ClientNotes :
       (n \in Members(client.offlineQueue)
          /\ n \notin Members(client'.offlineQueue))
       => client'.sync.outcome = "ok"]_vars

\* C25: a step of an elaborate request for a note leaves the row, the
\* stored blob and the Reference rows of every other note as they are; the
\* rows and the blob of a note come from pipeline runs on that note's own
\* body, and a 200 response for a note carries the sections of that note's
\* blob (cached) or of a run on its body (fresh).
C25_NotesIndependent ==
  /\ [][\A r \in Reqs :
          (pc'[r] # pc[r] /\ pc'[r] # "new")
          => \A other \in DOMAIN notes \ {args'[r].id} :
               notes'[other] = notes[other] /\ refRows'[other] = refRows[other]]_vars
  /\ [](\A n \in DOMAIN notes :
          /\ \A x \in refRows[n] : generatedFrom[x.by] = notes[n].bodyMd
          /\ notes[n].elaborationJson # NoBlob
             => generatedFrom[RunOf(notes[n].elaborationJson)] = notes[n].bodyMd)
  /\ [](\A r \in Reqs :
          resp[r].status = 200
          => generatedFrom[RunOf(resp[r])] = notes[args[r].id].bodyMd)

\* both notes carry an elaboration with Reference rows, from different runs
C25_Witness ==
  /\ DOMAIN notes = TwoNotes
  /\ \A n \in TwoNotes : notes[n].elaborationJson # NoBlob /\ refRows[n] # {}
  /\ \E r \in Reqs : Cached(r) /\ pc[r] = "answered"

\* C26: no index the ranking model returns makes the request fail: after
\* the Ranker has answered, the request goes on to the Citation Generator,
\* and every source it passes on is one of the search results, in the order
\* of the valid indices.
C26_IndicesChecked ==
  [][\A r \in Reqs :
       (pc[r] = "rerankResults" /\ pc'[r] # pc[r]
          /\ resp'[r] # ErrorResponse("rerankResults"))
       => /\ pc'[r] = "elaborateNote"
          /\ \A i \in 1..Len(loc'[r].topSources) :
               \E k \in 1..Len(loc[r].searchResults) :
                 loc'[r].topSources[i] = loc[r].searchResults[k]]_vars

\* C30: the references of a fresh response are pairwise distinct search
\* results, and metadata.sourcesUsed is at most metadata.sourcesFound.
C30_SourcesDistinct ==
  \A r \in Reqs :
    (Fresh(r) /\ "sourcesUsed" \in DOMAIN resp[r].metadata)
    => /\ resp[r].metadata.sourcesUsed <= resp[r].metadata.sourcesFound
       /\ \A i \in 1..Len(resp[r].references), j \in 1..Len(resp[r].references) :
            resp[r].references[i].url = resp[r].references[j].url => i = j

\* C27: a request for a note with a body whose stored blob does not parse,
\* parses to null or carries no contentHash is not answered with an error and
\* not from the cache: it enters the pipeline; and when a request completes
\* the pipeline, the blob it stores is an elaboration record with the hash of
\* the body it loaded.
C27_CorruptBlobIsAMiss ==
  [][\A r \in Reqs :
       /\ (pc[r] = "new" /\ pc'[r] # "new" /\ args'[r].id \in DOMAIN notes
            /\ notes[args'[r].id].elaborationJson
                 \in {CorruptBlob, NullJsonBlob, CaptionBlob})
          => (pc'[r] = "buildQueries" /\ resp'[r] = NoResp)
       /\ (pc[r] \in {"noteUpdate", "noteUpdateNoResults"} /\ pc'[r] = "done")
          => /\ resp'[r].status = 200
             /\ notes'[args[r].id].elaborationJson.kind = "elaboration"
             /\ notes'[args[r].id].elaborationJson.contentHash
                  = generateHash(loc[r].note.bodyMd)
             /\ notes'[args[r].id].elaborationJson.sections = resp'[r].sections]_vars

\* a non-forced request has passed a blob that does not parse and is in the
\* pipeline
C27_Witness ==
  \E r \in Reqs :
    /\ pc[r] \in InPipeline /\ ~args[r].force /\ log[r] # <<>>
    /\ notes[args[r].id].elaborationJson = CorruptBlob

\* the texts a and b are the same once their leading and trailing blanks
\* are taken off
SameTrimmed(a, b) ==
  \E i \in 1..(Len(a) + 1), j \in 0..Len(a) :
    TrimsTo(a, SubSeq(a, i, j)) /\ TrimsTo(b, SubSeq(a, i, j))

\* C28: the contentHash of every stored elaboration record is the hash of
\* the body its text was generated from, and a request is answered from the
\* cache only with sections generated from a body that, trimmed, is the
\* trimmed body the request has loaded, whatever edits and other requests
\* came in between.
C28_CacheSafeUnderEdits ==
  /\ [](\A n \in DOMAIN notes :
          notes[n].elaborationJson.kind = "elaboration"
          => notes[n].elaborationJson.contentHash
               = generateHash(generatedFrom[RunOf(notes[n].elaborationJson)]))
  /\ [][\A r \in Reqs :
          (pc[r] = "new" /\ resp'[r].status = 200 /\ resp'[r].metadata.cached)
          => /\ generatedFrom[RunOf(resp'[r])] # NULL
             /\ SameTrimmed(generatedFrom[RunOf(resp'[r])],
                            notes[args'[r].id].bodyMd)]_vars

\* the body was edited while a request was in the pipeline: the record the
\* request stored carries the hash of the old body, and a later non-forced
\* request has missed the cache
C28_Witness ==
  \E r \in Reqs, id \in NoteIds :
    /\ args[r].id = id /\ ~args[r].force
    /\ pc[r] = "buildQueries" /\ log[r] = <<>>
    /\ notes[id].elaborationJson.kind = "elaboration"
    /\ edits > 0
    /\ notes[id].elaborationJson.contentHash # generateHash(notes[id].bodyMd)
    /\ generatedFrom[RunOf(notes[id].elaborationJson)] # notes[id].bodyMd

\* C29: whenever the editor of the open note holds content other than
\* what the server has stored for the note, state.hasUnsavedChanges is true:
\* while a save is in flight and after a save has failed as well.
C29_UnsavedFlag ==
  (client.currentNote # "none"
     /\ client.editor # client.server[client.currentNote])
  => client.hasUnsavedChanges

====
